---- MODULE Spec2Model ----
(***************************************************************************)
(* A model of src/src/conn.rs: ConnectionPool::connect (the request /      *)
(* redirect pipeline), send_payload / pipe (payload framing) and           *)
(* match_cookies (cookie matching).                                        *)
(*                                                                         *)
(* Text (header values, host names, paths, raw Set-Cookie values) is a     *)
(* tuple of one-character strings, so that contains / find / to_lowercase  *)
(* / eq_ignore_ascii_case / parse are computed character by character.     *)
(* Option<T> is a record [some, v]; Result<T, E> is a record [ok, v].       *)
(***************************************************************************)
EXTENDS Integers, Sequences, FiniteSets, TLC

VARIABLES
    request,        \* &Request: [headers: Seq([name, value])], never changed
    method,         \* method argument of the current hop
    url,            \* url argument of the current hop: [scheme, host, path]
    redirects,      \* redirects argument of the current hop (remaining budget)
    payload,        \* payload argument of the current hop: [size, blocks]
    jar,            \* Option<&mut CookieJar>: [some, v: set of cookies]
    pc,             \* position inside the current hop / the call
    cookie_headers, \* the hop's cookie_headers (line 37)
    stream,         \* what has been written to the current hop's stream so far
    stream_id,      \* which connection `stream` is (0: none opened yet)
    resp,           \* the hop's Response, once read
    result,         \* what the outermost connect returned
    orig,           \* the outermost call's arguments (history)
    trail,          \* one entry per redirect followed: was it a 301/302/303
    dns_lookups,    \* calls of dns_lookup::lookup_host so far
    attempts,       \* calls of TcpStream::connect(_timeout) so far
    sends           \* the calls of send_payload so far: [stream, payload, written, after]

vars == <<request, method, url, redirects, payload, jar, pc, cookie_headers,
          stream, stream_id, resp, result, orig, trail, dns_lookups, attempts,
          sends>>

-----------------------------------------------------------------------------
(* Option and Result *)

None == [some |-> FALSE, v |-> <<>>]

Some(x) == [some |-> TRUE, v |-> x]

NoSize == [some |-> FALSE, v |-> 0]

Ok(x) == [ok |-> TRUE, v |-> x]

Err(e) == [ok |-> FALSE, v |-> e]

-----------------------------------------------------------------------------
(* Text *)

UpperChars == <<"A","B","C","D","E","F","G","H","I","J","K","L","M",
                "N","O","P","Q","R","S","T","U","V","W","X","Y","Z">>

LowerChars == <<"a","b","c","d","e","f","g","h","i","j","k","l","m",
                "n","o","p","q","r","s","t","u","v","w","x","y","z">>

DigitChars == <<"0","1","2","3","4","5","6","7","8","9">>

HexChars == <<"0","1","2","3","4","5","6","7","8","9","a","b","c","d","e","f">>

\* u8::to_ascii_lowercase
ToLowerChar(c) ==
    IF \E i \in 1..26 : UpperChars[i] = c
    THEN LowerChars[CHOOSE i \in 1..26 : UpperChars[i] = c]
    ELSE c

\* str::to_lowercase (ASCII text)
ToLower(s) == [i \in 1..Len(s) |-> ToLowerChar(s[i])]

\* str::eq_ignore_ascii_case
EqIgnoreAsciiCase(s, t) == ToLower(s) = ToLower(t)

\* str::find: the first position (1-based) where t occurs in s, 0 if none
Find(s, t) ==
    LET hits == {i \in 1..(Len(s) - Len(t) + 1) : SubSeq(s, i, i + Len(t) - 1) = t}
    IN  IF hits = {} THEN 0 ELSE CHOOSE i \in hits : \A j \in hits : i <= j

\* str::contains
Contains(s, t) == Find(s, t) # 0

EndsWith(s, t) ==
    /\ Len(t) <= Len(s)
    /\ SubSeq(s, Len(s) - Len(t) + 1, Len(s)) = t

StartsWith(s, t) ==
    /\ Len(t) <= Len(s)
    /\ SubSeq(s, 1, Len(t)) = t

RECURSIVE TrimStart(_)
TrimStart(s) == IF s # <<>> /\ Head(s) = " " THEN TrimStart(Tail(s)) ELSE s

RECURSIVE TrimEnd(_)
TrimEnd(s) ==
    IF s # <<>> /\ s[Len(s)] = " " THEN TrimEnd(SubSeq(s, 1, Len(s) - 1)) ELSE s

\* str::trim
Trim(s) == TrimEnd(TrimStart(s))

\* str::split on one character: the pieces, in order
RECURSIVE Split(_, _)
Split(s, c) ==
    LET i == Find(s, <<c>>)
    IN  IF i = 0 THEN <<s>>
        ELSE <<SubSeq(s, 1, i - 1)>> \o Split(SubSeq(s, i + 1, Len(s)), c)

DigitValue(c) == (CHOOSE i \in 1..10 : DigitChars[i] = c) - 1

IsDigit(c) == \E i \in 1..10 : DigitChars[i] = c

RECURSIVE DigitsValue(_)
DigitsValue(s) ==
    IF s = <<>> THEN 0
    ELSE DigitsValue(SubSeq(s, 1, Len(s) - 1)) * 10 + DigitValue(s[Len(s)])

\* str::parse::<usize>: an optional '+', then one or more decimal digits
ParseUsize(s) ==
    LET d == IF s # <<>> /\ Head(s) = "+" THEN Tail(s) ELSE s
    IN  IF d # <<>> /\ \A i \in 1..Len(d) : IsDigit(d[i])
        THEN Ok(DigitsValue(d))
        ELSE Err(0)

\* format!("{:x}", n)
RECURSIVE Hex(_)
Hex(n) == IF n < 16 THEN <<HexChars[n + 1]>> ELSE Hex(n \div 16) \o <<HexChars[(n % 16) + 1]>>

HexDigitValue(c) == (CHOOSE i \in 1..16 : HexChars[i] = c) - 1

\* the number a chunk-size line denotes (the receiver's reading of it)
RECURSIVE HexValue(_)
HexValue(s) ==
    IF s = <<>> THEN 0
    ELSE HexValue(SubSeq(s, 1, Len(s) - 1)) * 16 + HexDigitValue(s[Len(s)])

-----------------------------------------------------------------------------
(* Request headers *)

\* Request::header: the value of the first header of that name
Header(req, name) ==
    LET hits == {i \in 1..Len(req.headers) : req.headers[i].name = name}
    IN  IF hits = {} THEN None
        ELSE Some(req.headers[CHOOSE i \in hits : \A j \in hits : i <= j].value)

\* Request::has
Has(req, name) == Header(req, name).some

-----------------------------------------------------------------------------
(* send_payload and pipe                                                   *)
(*                                                                         *)
(* A payload is [size, blocks]: size is the Option<usize> that into_read   *)
(* returns, blocks are the lengths that successive reader.read calls       *)
(* return before the read of 0. The bytes of the payload are numbered from *)
(* 0; what reaches the stream is a sequence of items:                      *)
(*   [kind |-> "raw",   size |-> <<>>,  from |-> a, to |-> b]               *)
(*       the payload bytes a..b-1, verbatim;                               *)
(*   [kind |-> "chunk", size |-> line, from |-> a, to |-> b]               *)
(*       a chunk: the size line, CRLF, the payload bytes a..b-1, CRLF.     *)
(***************************************************************************)

CHUNK_SIZE == 1024 * 1024

\* chunked_transfer::Encoder::new: the default size of a chunk
ENCODER_CHUNKS_SIZE == 8192

Raw(a, b) == [kind |-> "raw", size |-> <<>>, from |-> a, to |-> b]

\* chunked_transfer's send(output, data)
Chunk(a, b) == [kind |-> "chunk", size |-> Hex(b - a), from |-> a, to |-> b]

RECURSIVE SumSeq(_)
SumSeq(s) == IF s = <<>> THEN 0 ELSE Head(s) + SumSeq(Tail(s))

\* pipe(reader, stream): every block read is written as it is
RECURSIVE PipeRaw(_, _)
PipeRaw(blocks, at) ==
    IF blocks = <<>> THEN <<>>
    ELSE <<Raw(at, at + Head(blocks))>> \o PipeRaw(Tail(blocks), at + Head(blocks))

\* Encoder::write: while the buffer holds a whole chunk, send one
EncoderDrain(sent, buffered) ==
    [i \in 1..((buffered - sent) \div ENCODER_CHUNKS_SIZE) |->
        Chunk(sent + (i - 1) * ENCODER_CHUNKS_SIZE, sent + i * ENCODER_CHUNKS_SIZE)]

\* the bytes sent once the buffer holding sent..buffered-1 has been drained
EncoderSent(sent, buffered) ==
    sent + ((buffered - sent) \div ENCODER_CHUNKS_SIZE) * ENCODER_CHUNKS_SIZE

\* Encoder's drop: flush sends what is left in the buffer (if anything),
\* then the empty chunk is sent; a failure of either is ignored
EncoderDrop(sent, buffered) ==
    (IF buffered > sent THEN <<Chunk(sent, buffered)>> ELSE <<>>)
        \o <<Chunk(buffered, buffered)>>

\* pipe(reader, Encoder::new(stream)): the blocks go through the encoder's
\* buffer; when pipe returns the encoder is dropped.
RECURSIVE PipeChunked(_, _, _)
PipeChunked(blocks, sent, buffered) ==
    IF blocks = <<>>
    THEN EncoderDrop(sent, buffered)
    ELSE EncoderDrain(sent, buffered + Head(blocks))
             \o PipeChunked(Tail(blocks),
                            EncoderSent(sent, buffered + Head(blocks)),
                            buffered + Head(blocks))

\* lines 193-198: the Option<bool> computed when there is no
\* transfer-encoding header
SizeSaysChunk(req, size) ==
    LET len  == Header(req, "content-length")
        fromHeader == IF len.some
                      THEN (IF ParseUsize(len.v).ok
                            THEN [some |-> TRUE, v |-> ParseUsize(len.v).v]
                            ELSE [some |-> TRUE, v |-> 0])
                      ELSE NoSize
        sz   == IF size.some THEN size ELSE fromHeader
    IN  IF sz.some THEN Some(sz.v > CHUNK_SIZE) ELSE None

\* DoChunk comparing the header value with "chunked" exactly
DoChunk_CaseSensitive(req, size) ==
    LET enc == Header(req, "transfer-encoding")
    IN  IF enc.some THEN enc.v = <<"c","h","u","n","k","e","d">> ELSE TRUE

\* DoChunk ending in unwrap_or(false)
DoChunk_DefaultFalse(req, size) ==
    LET enc == Header(req, "transfer-encoding")
    IN  IF enc.some
        THEN EqIgnoreAsciiCase(enc.v, <<"c","h","u","n","k","e","d">>)
        ELSE FALSE

\* lines 189-200: Option<bool>::ok_or_else gives a Result<bool, Option<bool>>,
\* and Result::unwrap_or(true) gives true for every Err
DoChunk(req, size) ==
    LET enc == Header(req, "transfer-encoding")
        res == IF enc.some
               THEN Ok(EqIgnoreAsciiCase(enc.v, <<"c","h","u","n","k","e","d">>))
               ELSE Err(SizeSaysChunk(req, size))
    IN  IF res.ok THEN res.v ELSE TRUE

\* send_payload, when no read and no write fails: what it writes
SendPayload(req, pl) ==
    IF DoChunk(req, pl.size)
    THEN PipeChunked(pl.blocks, 0, 0)
    ELSE PipeRaw(pl.blocks, 0)

-----------------------------------------------------------------------------
(* Cookies                                                                 *)
(*                                                                         *)
(* A cookie is [name, value, domain, path, secure]; domain and path are    *)
(* options. The jar holds at most one cookie of a name.                    *)
(***************************************************************************)

T_domain == <<"d","o","m","a","i","n">>

T_path == <<"p","a","t","h">>

T_secure == <<"s","e","c","u","r","e">>

\* one attribute of a Set-Cookie value (the text between two ';') applied to
\* the cookie parsed so far: the key is trimmed and compared in lower case,
\* an empty Domain value is ignored and a leading '.' of it is dropped
ParseAttribute(cookie, attr) ==
    LET i     == Find(attr, <<"=">>)
        key   == ToLower(Trim(IF i = 0 THEN attr ELSE SubSeq(attr, 1, i - 1)))
        value == IF i = 0 THEN None ELSE Some(Trim(SubSeq(attr, i + 1, Len(attr))))
    IN  IF key = T_secure THEN [cookie EXCEPT !.secure = TRUE]
        ELSE IF key = T_domain /\ value.some /\ value.v # <<>>
        THEN [cookie EXCEPT !.domain =
                 Some(IF Head(value.v) = "." THEN Tail(value.v) ELSE value.v)]
        ELSE IF key = T_path /\ value.some
        THEN [cookie EXCEPT !.path = value]
        ELSE cookie

RECURSIVE ParseAttributes(_, _)
ParseAttributes(cookie, attrs) ==
    IF attrs = <<>> THEN cookie
    ELSE ParseAttributes(ParseAttribute(cookie, Head(attrs)), Tail(attrs))

\* Cookie::parse_encoded (line 77): "name=value" up to the first ';', then
\* the attributes; no '=' in the first part, or an empty name, is an error
ParseCookie(s) ==
    LET parts == Split(s, ";")
        kv    == Head(parts)
        i     == Find(kv, <<"=">>)
        name  == Trim(SubSeq(kv, 1, i - 1))
        value == Trim(SubSeq(kv, i + 1, Len(kv)))
    IN  IF i = 0 \/ name = <<>> THEN Err(<<>>)
        ELSE Ok(ParseAttributes([name |-> name, value |-> value, domain |-> None,
                                 path |-> None, secure |-> FALSE],
                                Tail(parts)))

\* lines 72-76: the text handed to the parser
ToParse(raw_cookie, hostname) ==
    IF Contains(ToLower(raw_cookie), T_domain \o <<"=">>)
    THEN raw_cookie
    ELSE raw_cookie \o <<";"," ","D","o","m","a","i","n","=">> \o hostname

\* CookieJar::add (line 81): a cookie replaces the one of the same name
JarAdd(cookies, cookie) == {c \in cookies : c.name # cookie.name} \cup {cookie}

\* lines 71-84: every Set-Cookie value of the response, in order
RECURSIVE AddCookies(_, _, _)
AddCookies(cookies, raws, hostname) ==
    IF raws = <<>> THEN cookies
    ELSE LET parsed == ParseCookie(ToParse(Head(raws), hostname))
         IN  AddCookies(IF parsed.ok THEN JarAdd(cookies, parsed.v) ELSE cookies,
                        Tail(raws), hostname)

\* lines 232-234
DomainOk(c, domain) == IF c.domain.some THEN Contains(domain, c.domain.v) ELSE FALSE

\* lines 236-238
PathOk(c, path) == IF c.path.some THEN Find(path, c.path.v) = 1 ELSE TRUE

\* line 240 letting every cookie through
SecureOk_Always(c, is_secure) == TRUE

\* line 240
SecureOk(c, is_secure) == ~c.secure \/ is_secure

\* lines 245-249: the header made of a matching cookie (name and value are
\* percent-encoded by encoded(), so the header always parses)
CookieHeader(c) == [name |-> "Cookie", value |-> c.name \o <<"=">> \o c.value]

\* match_cookies: each matching entry with the header made of it (the jar
\* iterates in no particular order)
MatchCookies(cookies, domain, path, is_secure) ==
    {[entry |-> c, header |-> CookieHeader(c)] :
        c \in {c \in cookies : DomainOk(c, domain) /\ PathOk(c, path)
                                  /\ SecureOk(c, is_secure)}}

-----------------------------------------------------------------------------
(* URLs                                                                    *)
(*                                                                         *)
(* A Url is [scheme, host, path]; the scheme is a string (the Url parser   *)
(* keeps it in lower case), the host an optional text, the path a text.    *)
(***************************************************************************)

T_localhost == <<"l","o","c","a","l","h","o","s","t">>

\* line 34
Hostname(u) == IF u.host.some THEN u.host.v ELSE T_localhost

\* line 35
IsSecure(u) == u.scheme = "https"

NoUrl == [scheme |-> "", host |-> None, path |-> <<>>]

-----------------------------------------------------------------------------
(* The values the variables hold while they are not in use *)

NoRequest == [headers |-> <<>>]

EmptyPayload == [kind |-> "Empty", size |-> NoSize, blocks |-> <<>>]

NoJar == [some |-> FALSE, v |-> {}]

NoResponse == [status |-> 0, location |-> [kind |-> "none", target |-> NoUrl],
               set_cookie |-> <<>>]

NoResult == [ok |-> FALSE, v |-> "pending", stream |-> 0]

NoOrig == [method |-> "", payload |-> EmptyPayload, redirects |-> 0, jar |-> NoJar]

-----------------------------------------------------------------------------
(* Inputs of send_payload *)

T_chunked == <<"c","h","u","n","k","e","d">>

TransferEncodings ==
    { T_chunked,
      <<"C","h","u","n","k","e","d">>,
      <<"C","H","U","N","K","E","D">>,
      <<"c","h","u","n","k","e">>,
      <<"c","h","u","n","k","e","d"," ">>,
      <<"g","z","i","p">>,
      <<>> }

ContentLengths ==
    { <<"1","0">>,
      <<"+","5">>,
      <<"1","0","4","8","5","7","6">>,
      <<"1","0","4","8","5","7","7">>,
      <<"x">>,
      <<>> }

\* the requests send_payload is given: no header, or one of each kind
PayloadRequests ==
    {[headers |-> <<>>]}
    \cup {[headers |-> <<[name |-> "transfer-encoding", value |-> te]>>] :
             te \in TransferEncodings}
    \cup {[headers |-> <<[name |-> "content-length", value |-> cl]>>] :
             cl \in ContentLengths}
    \cup {[headers |-> <<[name |-> "content-length", value |-> cl],
                         [name |-> "transfer-encoding", value |-> te]>>] :
             cl \in ContentLengths, te \in TransferEncodings}

\* the reads of a source of n bytes that fills the buffer whenever it can
RECURSIVE FullReads(_)
FullReads(n) ==
    IF n = 0 THEN <<>>
    ELSE IF n <= CHUNK_SIZE THEN <<n>>
    ELSE <<CHUNK_SIZE>> \o FullReads(n - CHUNK_SIZE)

\* a payload of known size (text, JSON)
Sized(n) == [kind |-> "Sized", size |-> [some |-> TRUE, v |-> n], blocks |-> FullReads(n)]

\* a payload of unknown size: a reader, and what its reads return
Reader(blocks) == [kind |-> "Reader", size |-> NoSize, blocks |-> blocks]

Payloads ==
    { EmptyPayload, Sized(0), Sized(10), Sized(8197), Sized(CHUNK_SIZE),
      Sized(CHUNK_SIZE + 1),
      Reader(<<>>), Reader(<<10>>), Reader(<<3, 7>>), Reader(<<8192>>),
      Reader(<<5, 8190>>), Reader(<<CHUNK_SIZE, 1>>) }

-----------------------------------------------------------------------------
(* SpecPayload: send_payload applied to every request and payload above *)

InitPayload ==
    /\ request \in PayloadRequests
    /\ payload \in Payloads
    /\ pc = "send_payload"
    /\ method = "" /\ url = NoUrl /\ redirects = 0 /\ jar = NoJar
    /\ cookie_headers = {} /\ stream = <<>> /\ stream_id = 1
    /\ resp = NoResponse /\ result = NoResult /\ orig = NoOrig /\ trail = <<>>
    /\ dns_lookups = 0 /\ attempts = 0 /\ sends = <<>>

CallSendPayload ==
    /\ pc = "send_payload"
    /\ stream' = stream \o SendPayload(request, payload)
    /\ sends' = Append(sends, [stream |-> stream_id, payload |-> payload,
                                 written |-> SendPayload(request, payload),
                                 after |-> <<>>])
    /\ pc' = "returned"
    /\ UNCHANGED <<request, method, url, redirects, payload, jar, cookie_headers,
                   stream_id, resp, result, orig, trail, dns_lookups, attempts>>

NextPayload == CallSendPayload

SpecPayload == InitPayload /\ [][NextPayload]_vars

-----------------------------------------------------------------------------
(* Inputs of match_cookies *)

T_k == <<"k">>

T_v == <<"v">>

H_ab == <<"a",".","b">>

H_wab == <<"w",".","a",".","b">>

H_abc == <<"a",".","b",".","c">>

H_xab == <<"x","a",".","b">>

P_root == <<"/">>

P_p == <<"/","p">>

P_pq == <<"/","p","/","q">>

P_qp == <<"/","q","/","p">>

CookieDomains == {None, Some(H_ab), Some(H_wab), Some(<<"b">>)}

CookiePaths == {None, Some(P_root), Some(P_p), Some(<<"p">>), Some(P_pq)}

MatchEntries ==
    {[name |-> T_k, value |-> T_v, domain |-> d, path |-> p, secure |-> s] :
        d \in CookieDomains, p \in CookiePaths, s \in BOOLEAN}

MatchJars ==
    {{}} \cup {{e} : e \in MatchEntries}
    \cup {{e, [name |-> <<"s">>, value |-> T_v, domain |-> Some(H_ab),
               path |-> None, secure |-> TRUE]} :
             e \in {m \in MatchEntries : ~m.domain.some}}

MatchUrls ==
    {[scheme |-> s, host |-> Some(h), path |-> p] :
        s \in {"http", "https"}, h \in {H_ab, H_wab, H_abc, H_xab},
        p \in {P_root, P_p, P_pq, P_qp}}

-----------------------------------------------------------------------------
(* SpecCookies: match_cookies applied to every jar and URL above *)

InitCookies ==
    /\ jar \in {[some |-> TRUE, v |-> j] : j \in MatchJars}
    /\ url \in MatchUrls
    /\ pc = "match_cookies"
    /\ request = NoRequest /\ method = "" /\ redirects = 0
    /\ payload = EmptyPayload
    /\ cookie_headers = {} /\ stream = <<>> /\ stream_id = 0
    /\ resp = NoResponse /\ result = NoResult /\ orig = NoOrig /\ trail = <<>>
    /\ dns_lookups = 0 /\ attempts = 0 /\ sends = <<>>

CallMatchCookies ==
    /\ pc = "match_cookies"
    /\ cookie_headers' = MatchCookies(jar.v, Hostname(url), url.path, IsSecure(url))
    /\ pc' = "returned"
    /\ UNCHANGED <<request, method, url, redirects, payload, jar, stream,
                   stream_id, resp, result, orig, trail, dns_lookups, attempts,
                   sends>>

NextCookies == CallMatchCookies

SpecCookies == InitCookies /\ [][NextCookies]_vars

-----------------------------------------------------------------------------
(* ConnectionPool::connect                                                 *)
(*                                                                         *)
(* One call of connect and the calls it makes of itself: a hop is one      *)
(* invocation. pc is the place in the current hop:                         *)
(*   "open"      lines 34-51   match the cookies, open the socket          *)
(*   "prelude"   lines 54-64   write the request line and the headers      *)
(*   "read"      lines 67-85   read the response, store its cookies        *)
(*   "redirect"  lines 87-120  follow a redirect, or send the payload and  *)
(*                             return                                      *)
(*   "done" / "failed"         the outermost call has returned Ok / Err    *)
(* A redirect that is followed starts the next hop at "open" with the      *)
(* arguments of the recursive call; the Err or Ok of the innermost call is *)
(* what every enclosing call returns (lines 101-109).                      *)
(***************************************************************************)

\* Response::redirect
Redirect(r) == r.status \in 300..399 /\ r.location.kind # "none"

\* Url::join (line 97): an absolute location replaces the URL, a relative
\* one replaces its path, and some text is no URL at all
Join(u, location) ==
    IF location.kind = "abs" THEN Ok(location.target)
    ELSE IF location.kind = "rel" THEN Ok([u EXCEPT !.path = location.target.path])
    ELSE Err(NoUrl)

\* lines 88-111 deciding before line 89's check whether the location resolves
RedirectOutcome_JoinFirst(r, budget, u) ==
    IF Redirect(r)
    THEN IF r.location.kind # "none" /\ ~Join(u, r.location).ok THEN "BadUrl"
         ELSE IF budget = 0 THEN "TooManyRedirects"
         ELSE IF r.location.kind # "none"
         THEN (IF r.status \in {301, 302, 303} THEN "get" ELSE "keep")
         ELSE "none"
    ELSE "none"

\* lines 88-111 giving up one hop early
RedirectOutcome_OffByOne(r, budget, u) ==
    IF Redirect(r)
    THEN IF budget <= 1 THEN "TooManyRedirects"
         ELSE IF r.location.kind # "none"
         THEN IF ~Join(u, r.location).ok THEN "BadUrl"
              ELSE IF r.status \in {301, 302, 303} THEN "get" ELSE "keep"
         ELSE "none"
    ELSE "none"

\* lines 101-108 with 301 and 302 left out of the first arm
RedirectOutcome_Only303(r, budget, u) ==
    IF Redirect(r)
    THEN IF budget = 0 THEN "TooManyRedirects"
         ELSE IF r.location.kind # "none"
         THEN IF ~Join(u, r.location).ok THEN "BadUrl"
              ELSE IF r.status = 303 THEN "get" ELSE "keep"
         ELSE "none"
    ELSE "none"

\* lines 101-108 with 307 in the first arm
RedirectOutcome_307AsGet(r, budget, u) ==
    IF Redirect(r)
    THEN IF budget = 0 THEN "TooManyRedirects"
         ELSE IF r.location.kind # "none"
         THEN IF ~Join(u, r.location).ok THEN "BadUrl"
              ELSE IF r.status \in {301, 302, 303, 307} THEN "get" ELSE "keep"
         ELSE "none"
    ELSE "none"

\* lines 88-111 entered for every 3xx status, with or without a Location
RedirectOutcome_StatusOnly(r, budget, u) ==
    IF r.status \in 300..399
    THEN IF budget = 0 THEN "TooManyRedirects"
         ELSE IF r.location.kind # "none"
         THEN IF ~Join(u, r.location).ok THEN "BadUrl"
              ELSE IF r.status \in {301, 302, 303} THEN "get" ELSE "keep"
         ELSE "none"
    ELSE "none"

\* lines 88-111: what connect does with the response it has read:
\*   "TooManyRedirects", "BadUrl"   return that error
\*   "get"    send the payload here and recurse with GET and no payload
\*   "keep"   recurse with the same method and payload
\*   "none"   go on to line 114
RedirectOutcome(r, budget, u) ==
    IF Redirect(r)
    THEN IF budget = 0 THEN "TooManyRedirects"
         ELSE IF r.location.kind # "none"
         THEN IF ~Join(u, r.location).ok THEN "BadUrl"
              ELSE IF r.status \in {301, 302, 303} THEN "get" ELSE "keep"
         ELSE "none"
    ELSE "none"

\* lines 54-62: the prelude; a Host header is made of the URL unless the
\* request has one, then come the request's headers, then the cookie headers
Prelude(req, m, u, cookies) ==
    [kind |-> "prelude", method |-> m, path |-> u.path,
     host |-> IF Has(req, "host") THEN None ELSE u.host,
     headers |-> req.headers,
     cookies |-> {c.header : c \in cookies},
     entries |-> {c.entry : c \in cookies}]

\* the payload part of what a stream has been given
Body(items) == SelectSeq(items, LAMBDA it : it.kind # "prelude")

\* line 219: the reads of the source that can fail, counted by the blocks
\* read before; a caller's reader can fail at any read, the cursor over a
\* text and io::empty() cannot
FailingReads(pl) == IF pl.kind = "Reader" THEN 0..Len(pl.blocks) ELSE {}

\* pipe(reader, stream) that fails: at a read, after the blocks before it
\* have been written, or at write_all of a block, after the blocks before it
RawFailures(pl) ==
    {[written |-> PipeRaw(SubSeq(pl.blocks, 1, k), 0), after |-> <<>>] :
        k \in FailingReads(pl) \cup 0..(Len(pl.blocks) - 1)}

\* the chunks Encoder::write has sent once the first k blocks are written
Drained(blocks, k) ==
    EncoderDrain(0, SumSeq(SubSeq(blocks, 1, k)))

\* pipe(reader, Encoder::new(stream)) that fails. At a read: the ? of line
\* 219 returns and the encoder, pipe's own argument, is dropped, so the
\* buffer and the empty chunk are written after the failure. At a write:
\* Encoder::write fails when it sends a whole chunk to the stream; the
\* buffer keeps what was not sent, and the drop writes it and the empty
\* chunk to the stream that has failed, where each write may fail again.
\* (The writes of a drop that follows no failure are never reported.)
ChunkedFailures(pl) ==
    LET cum(k) == SumSeq(SubSeq(pl.blocks, 1, k))
    IN  {[written |-> Drained(pl.blocks, k),
          after |-> EncoderDrop(EncoderSent(0, cum(k)), cum(k))] :
            k \in FailingReads(pl)}
        \cup
        UNION {
          UNION {
            LET from  == (j - 1) * ENCODER_CHUNKS_SIZE
                flush == <<Chunk(from, cum(b))>>
                last  == <<Chunk(cum(b), cum(b))>>
            IN  {[written |-> SubSeq(Drained(pl.blocks, b), 1, j - 1), after |-> x] :
                    x \in {<<>>, flush, last, flush \o last}} :
            j \in (Len(Drained(pl.blocks, b - 1)) + 1)..Len(Drained(pl.blocks, b)) } :
          b \in 1..Len(pl.blocks) }

\* send_payload that returns Err: what it has written before the failure,
\* and what is written after it
FailedSends(req, pl) ==
    IF DoChunk(req, pl.size) THEN ChunkedFailures(pl) ELSE RawFailures(pl)

-----------------------------------------------------------------------------
(* Inputs of connect *)

\* the largest redirect budget of a call, in Spec and in SpecJar
MaxRedirects == 3

MaxJarRedirects == 2

Methods == {"GET", "POST"}

ChainRequests ==
    { [headers |-> <<>>],
      [headers |-> <<[name |-> "host", value |-> H_wab],
                     [name |-> "transfer-encoding", value |-> <<"g","z","i","p">>]>>] }

ChainPayloads == {EmptyPayload, Sized(10), Reader(<<3, 7>>), Reader(<<8192, 5>>)}

Url(scheme, host, path) == [scheme |-> scheme, host |-> Some(host), path |-> path]

\* "test" is a scheme of test builds only (lines 256-265)
StartUrls ==
    { Url("http", H_ab, P_root), Url("https", H_ab, P_p), Url("ftp", H_ab, P_root),
      Url("test", H_ab, P_root) }

\* a jar the caller has filled: a secure cookie for a.b, and one with no domain
CallerJar ==
    { [name |-> <<"t">>, value |-> T_v, domain |-> Some(H_ab), path |-> None,
       secure |-> TRUE],
      [name |-> <<"n">>, value |-> T_v, domain |-> None, path |-> None,
       secure |-> FALSE] }

StartJars == {[some |-> TRUE, v |-> {}], [some |-> TRUE, v |-> CallerJar]}

NoLocation == [kind |-> "none", target |-> NoUrl]

Locations ==
    { NoLocation,
      [kind |-> "bad", target |-> NoUrl],
      [kind |-> "rel", target |-> [scheme |-> "", host |-> None, path |-> P_p]],
      [kind |-> "abs", target |-> Url("http", H_wab, P_p)],
      [kind |-> "abs", target |-> Url("ftp", H_ab, P_root)] }

Statuses == {200, 301, 302, 303, 304, 307, 308}

\* the answers of the server in Spec: every status with every location
Responses ==
    {[status |-> st, location |-> loc, set_cookie |-> <<>>] :
        st \in Statuses, loc \in Locations}

\* Set-Cookie values
RC_plain == <<"k","=","v">>

RC_secure == <<"s","=","v",";"," ","S","e","c","u","r","e",";"," ","D","o","m","a","i","n","=","a",".","b">>

RC_path == <<"k","=","w",";"," ","P","a","t","h","=","/","p">>

RC_named_domain == <<"d","o","m","a","i","n","=","v">>

RC_unparseable == <<"j","u","n","k">>

SetCookies ==
    { <<>>, <<RC_plain>>, <<RC_secure>>, <<RC_named_domain>>,
      <<RC_unparseable, RC_path>> }

JarLocations ==
    { NoLocation,
      [kind |-> "bad", target |-> NoUrl],
      [kind |-> "rel", target |-> [scheme |-> "", host |-> None, path |-> P_p]],
      [kind |-> "abs", target |-> Url("http", H_wab, P_p)],
      [kind |-> "abs", target |-> Url("https", H_ab, P_root)],
      [kind |-> "abs", target |-> Url("ftp", H_ab, P_root)] }

\* the answers of the server in SpecJar: they set cookies
JarResponses ==
    {[status |-> st, location |-> loc, set_cookie |-> sc] :
        st \in {200, 302, 308}, loc \in JarLocations, sc \in SetCookies}

-----------------------------------------------------------------------------
(* The steps of connect *)

Init ==
    /\ request \in ChainRequests
    /\ method \in Methods
    /\ url \in StartUrls
    /\ redirects \in 0..MaxRedirects
    /\ jar = NoJar
    /\ payload \in ChainPayloads
    /\ orig = [method |-> method, payload |-> payload, redirects |-> redirects,
               jar |-> jar]
    /\ pc = "open"
    /\ cookie_headers = {} /\ stream = <<>> /\ stream_id = 0
    /\ resp = NoResponse /\ result = NoResult /\ trail = <<>>
    /\ dns_lookups = 0 /\ attempts = 0 /\ sends = <<>>

\* the Err that the hop returns, and with it every enclosing call
Fail(error) ==
    /\ pc' = "failed"
    /\ result' = [ok |-> FALSE, v |-> error, stream |-> 0]

\* lines 37-42 reading the jar as it was when the caller handed it over
MatchJar_AsHandedOver ==
    IF jar.some
    THEN MatchCookies(orig.jar.v, Hostname(url), url.path, IsSecure(url))
    ELSE {}

\* lines 37-42
MatchJar == IF jar.some
            THEN MatchCookies(jar.v, Hostname(url), url.path, IsSecure(url))
            ELSE {}

\* lines 46-51 with the name looked up before the scheme is matched
UnknownScheme_AfterLookup ==
    /\ pc = "open"
    /\ url.scheme \notin {"http", "https"}
    /\ cookie_headers' = MatchJar
    /\ dns_lookups' = dns_lookups + 1
    /\ Fail("UnknownScheme")
    /\ UNCHANGED <<request, method, url, redirects, payload, jar, stream,
                   stream_id, resp, orig, trail, attempts, sends>>

\* lines 46-51, the last arm (and connect_test, lines 256-259)
UnknownScheme ==
    /\ pc = "open"
    /\ url.scheme \notin {"http", "https"}
    /\ cookie_headers' = MatchJar
    /\ Fail("UnknownScheme")
    /\ UNCHANGED <<request, method, url, redirects, payload, jar, stream,
                   stream_id, resp, orig, trail, dns_lookups, attempts, sends>>

\* connect_host, lines 154-159: the lookup fails or finds no address
DnsFailed ==
    /\ pc = "open"
    /\ url.scheme \in {"http", "https"}
    /\ cookie_headers' = MatchJar
    /\ dns_lookups' = dns_lookups + 1
    /\ Fail("DnsFailed")
    /\ UNCHANGED <<request, method, url, redirects, payload, jar, stream,
                   stream_id, resp, orig, trail, attempts, sends>>

\* connect_host, lines 165-168: the socket does not connect; or
\* connect_https, lines 146-147: it does, and the host is no TLS name
ConnectionFailed ==
    /\ pc = "open"
    /\ url.scheme \in {"http", "https"}
    /\ cookie_headers' = MatchJar
    /\ dns_lookups' = dns_lookups + 1
    /\ attempts' = attempts + 1
    /\ Fail("ConnectionFailed")
    /\ UNCHANGED <<request, method, url, redirects, payload, jar, stream,
                   stream_id, resp, orig, trail, sends>>

\* lines 34-51 taking up the stream of the hop before, if there is one
OpenStream_Reused ==
    /\ pc = "open"
    /\ url.scheme \in {"http", "https"}
    /\ cookie_headers' = MatchJar
    /\ dns_lookups' = dns_lookups + 1
    /\ attempts' = attempts + 1
    /\ stream_id' = IF stream_id = 0 THEN 1 ELSE stream_id
    /\ stream' = <<>>
    /\ pc' = "prelude"
    /\ UNCHANGED <<request, method, url, redirects, payload, jar, resp, result,
                   orig, trail, sends>>

\* lines 34-51: a new stream
OpenStream ==
    /\ pc = "open"
    /\ url.scheme \in {"http", "https"}
    /\ cookie_headers' = MatchJar
    /\ dns_lookups' = dns_lookups + 1
    /\ attempts' = attempts + 1
    /\ stream_id' = stream_id + 1
    /\ stream' = <<>>
    /\ pc' = "prelude"
    /\ UNCHANGED <<request, method, url, redirects, payload, jar, resp, result,
                   orig, trail, sends>>

\* lines 54-64 with the payload sent right after the prelude
SendPrelude_ThenPayload ==
    /\ pc = "prelude"
    /\ stream' = <<Prelude(request, method, url, cookie_headers)>>
                     \o SendPayload(request, payload)
    /\ sends' = Append(sends, [stream |-> stream_id, payload |-> payload,
                                 written |-> SendPayload(request, payload),
                                 after |-> <<>>])
    /\ pc' = "read"
    /\ UNCHANGED <<request, method, url, redirects, payload, jar, cookie_headers,
                   stream_id, resp, result, orig, trail, dns_lookups, attempts>>

\* lines 54-64
SendPrelude ==
    /\ pc = "prelude"
    /\ stream' = Append(stream, Prelude(request, method, url, cookie_headers))
    /\ pc' = "read"
    /\ UNCHANGED <<request, method, url, redirects, payload, jar, cookie_headers,
                   stream_id, resp, result, orig, trail, dns_lookups, attempts,
                   sends>>

\* line 64, the write fails
SendPreludeFailed ==
    /\ pc = "prelude"
    /\ Fail("Io")
    /\ UNCHANGED <<request, method, url, redirects, payload, jar, cookie_headers,
                   stream, stream_id, resp, orig, trail, dns_lookups, attempts,
                   sends>>

\* lines 67-85 with the cookies kept only of an answer that is no redirect
ReadResponse_StoreUnlessRedirect(answers) ==
    /\ pc = "read"
    /\ \E r \in answers :
          /\ resp' = r
          /\ jar' = IF jar.some /\ ~Redirect(r)
                    THEN [some |-> TRUE,
                          v |-> AddCookies(jar.v, r.set_cookie, Hostname(url))]
                    ELSE jar
    /\ pc' = "redirect"
    /\ UNCHANGED <<request, method, url, redirects, payload, cookie_headers,
                   stream, stream_id, result, orig, trail, dns_lookups, attempts,
                   sends>>

\* lines 67-85: the server's answer, and its cookies into the jar
ReadResponse(answers) ==
    /\ pc = "read"
    /\ \E r \in answers :
          /\ resp' = r
          /\ jar' = IF jar.some
                    THEN [some |-> TRUE,
                          v |-> AddCookies(jar.v, r.set_cookie, Hostname(url))]
                    ELSE jar
    /\ pc' = "redirect"
    /\ UNCHANGED <<request, method, url, redirects, payload, cookie_headers,
                   stream, stream_id, result, orig, trail, dns_lookups, attempts,
                   sends>>

\* lines 89-91 and 97-98
RedirectFailed ==
    /\ pc = "redirect"
    /\ RedirectOutcome(resp, redirects, url) \in {"TooManyRedirects", "BadUrl"}
    /\ Fail(RedirectOutcome(resp, redirects, url))
    /\ UNCHANGED <<request, method, url, redirects, payload, jar, cookie_headers,
                   stream, stream_id, resp, orig, trail, dns_lookups, attempts,
                   sends>>

\* lines 102-105 handing the payload on to the next hop as well
RedirectGet_PayloadAgain ==
    /\ pc = "redirect"
    /\ RedirectOutcome(resp, redirects, url) = "get"
    /\ sends' = Append(sends, [stream |-> stream_id, payload |-> payload,
                                 written |-> SendPayload(request, payload),
                                 after |-> <<>>])
    /\ stream' = <<>>
    /\ cookie_headers' = {}
    /\ method' = "GET"
    /\ url' = Join(url, resp.location).v
    /\ redirects' = redirects - 1
    /\ trail' = Append(trail, resp.status \in {301, 302, 303})
    /\ resp' = NoResponse
    /\ pc' = "open"
    /\ UNCHANGED <<request, payload, jar, stream_id, result, orig, dns_lookups,
                   attempts>>

\* lines 102-105: the payload goes to this hop's stream, the next hop is a
\* GET with no payload
RedirectGet ==
    /\ pc = "redirect"
    /\ RedirectOutcome(resp, redirects, url) = "get"
    /\ sends' = Append(sends, [stream |-> stream_id, payload |-> payload,
                                 written |-> SendPayload(request, payload),
                                 after |-> <<>>])
    /\ stream' = <<>>
    /\ cookie_headers' = {}
    /\ method' = "GET"
    /\ url' = Join(url, resp.location).v
    /\ redirects' = redirects - 1
    /\ payload' = EmptyPayload
    /\ trail' = Append(trail, resp.status \in {301, 302, 303})
    /\ resp' = NoResponse
    /\ pc' = "open"
    /\ UNCHANGED <<request, jar, stream_id, result, orig, dns_lookups, attempts>>

\* line 103, send_payload fails
RedirectGetFailed ==
    /\ pc = "redirect"
    /\ RedirectOutcome(resp, redirects, url) = "get"
    /\ \E f \in FailedSends(request, payload) :
          /\ stream' = stream \o f.written \o f.after
          /\ sends' = Append(sends, [stream |-> stream_id, payload |-> payload,
                                       written |-> f.written, after |-> f.after])
    /\ Fail("Io")
    /\ UNCHANGED <<request, method, url, redirects, payload, jar, cookie_headers,
                   stream_id, resp, orig, trail, dns_lookups, attempts>>

\* lines 106-108 handing the budget on as it is
RedirectKeep_SameBudget ==
    /\ pc = "redirect"
    /\ RedirectOutcome(resp, redirects, url) = "keep"
    /\ url' = Join(url, resp.location).v
    /\ trail' = Append(trail, resp.status \in {301, 302, 303})
    /\ resp' = NoResponse
    /\ stream' = <<>>
    /\ cookie_headers' = {}
    /\ pc' = "open"
    /\ UNCHANGED <<request, method, redirects, payload, jar, stream_id, result,
                   orig, dns_lookups, attempts, sends>>

\* lines 106-108: the next hop has this hop's method and payload
RedirectKeep ==
    /\ pc = "redirect"
    /\ RedirectOutcome(resp, redirects, url) = "keep"
    /\ url' = Join(url, resp.location).v
    /\ redirects' = redirects - 1
    /\ trail' = Append(trail, resp.status \in {301, 302, 303})
    /\ resp' = NoResponse
    /\ stream' = <<>>
    /\ cookie_headers' = {}
    /\ pc' = "open"
    /\ UNCHANGED <<request, method, payload, jar, stream_id, result, orig,
                   dns_lookups, attempts, sends>>

\* lines 113-120: no redirect; the payload is sent and the response returned
\* with the stream
Finish ==
    /\ pc = "redirect"
    /\ RedirectOutcome(resp, redirects, url) = "none"
    /\ stream' = stream \o SendPayload(request, payload)
    /\ sends' = Append(sends, [stream |-> stream_id, payload |-> payload,
                                 written |-> SendPayload(request, payload),
                                 after |-> <<>>])
    /\ pc' = "done"
    /\ result' = [ok |-> TRUE, v |-> "Response", stream |-> stream_id]
    /\ UNCHANGED <<request, method, url, redirects, payload, jar, cookie_headers,
                   stream_id, resp, orig, trail, dns_lookups, attempts>>

\* line 114, send_payload fails
FinishFailed ==
    /\ pc = "redirect"
    /\ RedirectOutcome(resp, redirects, url) = "none"
    /\ \E f \in FailedSends(request, payload) :
          /\ stream' = stream \o f.written \o f.after
          /\ sends' = Append(sends, [stream |-> stream_id, payload |-> payload,
                                       written |-> f.written, after |-> f.after])
    /\ Fail("Io")
    /\ UNCHANGED <<request, method, url, redirects, payload, jar, cookie_headers,
                   stream_id, resp, orig, trail, dns_lookups, attempts>>

Step(answers) ==
    \/ UnknownScheme
    \/ DnsFailed
    \/ ConnectionFailed
    \/ OpenStream
    \/ SendPrelude
    \/ SendPreludeFailed
    \/ ReadResponse(answers)
    \/ RedirectFailed
    \/ RedirectGet
    \/ RedirectGetFailed
    \/ RedirectKeep
    \/ Finish
    \/ FinishFailed

\* Spec: connect without a jar, for every method, payload, budget, status and
\* location
Next == Step(Responses)

Spec == Init /\ [][Next]_vars

\* SpecJar: connect with a jar and a server that sets cookies
InitJar ==
    /\ request = [headers |-> <<>>]
    /\ method = "POST"
    /\ url \in StartUrls
    /\ redirects \in 0..MaxJarRedirects
    /\ jar \in StartJars
    /\ payload = Reader(<<3, 7>>)
    /\ orig = [method |-> method, payload |-> payload, redirects |-> redirects,
               jar |-> jar]
    /\ pc = "open"
    /\ cookie_headers = {} /\ stream = <<>> /\ stream_id = 0
    /\ resp = NoResponse /\ result = NoResult /\ trail = <<>>
    /\ dns_lookups = 0 /\ attempts = 0 /\ sends = <<>>

NextJar == Step(JarResponses)

SpecJar == InitJar /\ [][NextJar]_vars

-----------------------------------------------------------------------------
(* Properties of send_payload (SpecPayload) *)

\* the items cover the payload bytes 0..total-1 in order, with no gap
Contiguous(items, total) ==
    /\ \A i \in 1..Len(items) :
          items[i].from = (IF i = 1 THEN 0 ELSE items[i - 1].to)
    /\ (IF items = <<>> THEN 0 ELSE items[Len(items)].to) = total

\* the payload bytes and nothing else
FixedFraming(items, pl) ==
    /\ \A i \in 1..Len(items) : items[i].kind = "raw"
    /\ Contiguous(items, SumSeq(pl.blocks))

\* chunks only, each led by its own length in hexadecimal, and the empty
\* chunk last, after all the payload bytes
ChunkedFraming(items, pl) ==
    /\ items # <<>>
    /\ \A i \in 1..Len(items) :
          /\ items[i].kind = "chunk"
          /\ HexValue(items[i].size) = items[i].to - items[i].from
          /\ (items[i].to = items[i].from) <=> (i = Len(items))
    /\ Contiguous(items, SumSeq(pl.blocks))

\* the size send_payload has at hand: the payload's own, or else the
\* content-length header's (0 when that is no number)
AvailableSize(req, pl) ==
    IF pl.size.some THEN pl.size
    ELSE IF Has(req, "content-length")
    THEN [some |-> TRUE,
          v |-> IF ParseUsize(Header(req, "content-length").v).ok
                THEN ParseUsize(Header(req, "content-length").v).v ELSE 0]
    ELSE NoSize

\* C5 (as claimed): without a transfer-encoding header and with a size at
\* hand that does not exceed CHUNK_SIZE, send_payload writes the payload with
\* fixed framing: the bytes as they are, no chunk-length line, no terminator.
C5_SmallKnownSizeIsFixed ==
    (/\ pc = "returned"
     /\ ~Has(request, "transfer-encoding")
     /\ AvailableSize(request, payload).some
     /\ AvailableSize(request, payload).v <= CHUNK_SIZE)
    => FixedFraming(stream, payload)

\* C6: with a transfer-encoding header, the framing is chunked exactly when
\* the header value is "chunked" in any letter case, and fixed otherwise,
\* whatever the payload size and the content-length header.
C6_TransferEncodingDecides ==
    (pc = "returned" /\ Has(request, "transfer-encoding"))
    => LET te == Header(request, "transfer-encoding").v
       IN  IF Len(te) = 7 /\ \A i \in 1..7 : ToLowerChar(te[i]) = T_chunked[i]
           THEN ChunkedFraming(stream, payload)
           ELSE FixedFraming(stream, payload)

C6_Witness ==
    /\ pc = "returned"
    /\ Header(request, "transfer-encoding") = Some(<<"C","H","U","N","K","E","D">>)
    /\ Header(request, "content-length") = Some(<<"1","0">>)
    /\ payload = Sized(10)
    /\ stream = <<Chunk(0, 10), Chunk(10, 10)>>

\* C7: without a transfer-encoding header, and with no size at hand or one
\* above CHUNK_SIZE, the framing is chunked: every block on the stream is led
\* by its length and the empty chunk ends the output after all the payload
\* bytes, also when the source yields no byte at all.
C7_UnknownOrLargeIsChunked ==
    (/\ pc = "returned"
     /\ ~Has(request, "transfer-encoding")
     /\ \/ ~AvailableSize(request, payload).some
        \/ AvailableSize(request, payload).v > CHUNK_SIZE)
    => ChunkedFraming(stream, payload)

C7_Witness ==
    /\ pc = "returned"
    /\ request.headers = <<>>
    /\ payload = Reader(<<>>)
    /\ stream = <<Chunk(0, 0)>>

-----------------------------------------------------------------------------
(* Properties of match_cookies (SpecCookies) *)

\* C8 (as claimed): a header is returned for a jar entry only if the entry
\* has a domain that the request domain ends with, its path (if any) is a
\* prefix of the request path, and it is not secure unless the request is.
C8_MatchOnlyOnDomainSuffix ==
    pc = "returned"
    => \A h \in cookie_headers :
          /\ h.entry.domain.some
          /\ EndsWith(Hostname(url), h.entry.domain.v)
          /\ h.entry.path.some => StartsWith(url.path, h.entry.path.v)
          /\ h.entry.secure => IsSecure(url)

-----------------------------------------------------------------------------
(* Properties of connect (Spec) *)

Ended == pc \in {"done", "failed"}

\* the preludes written to the current hop's stream
Preludes == {stream[i] : i \in {j \in 1..Len(stream) : stream[j].kind = "prelude"}}

\* C1: with a budget N >= 1, when the first N requests are answered by a
\* redirect whose Location resolves and request N+1 by a response that is no
\* redirect, and nothing fails in I/O, DNS or connecting, connect returns Ok
\* after exactly N+1 connection attempts. (The chain never ends on a hop whose
\* answer follows that pattern without having made all N+1 attempts.)
C1_RedirectsThenResponse ==
    (/\ Ended
     /\ orig.redirects >= 1
     /\ result.v \notin {"Io", "DnsFailed", "ConnectionFailed"}
     /\ resp # NoResponse
     /\ \/ /\ Len(trail) < orig.redirects
           /\ Redirect(resp)
           /\ Join(url, resp.location).ok
        \/ /\ Len(trail) = orig.redirects
           /\ ~Redirect(resp))
    => /\ result.ok
       /\ attempts = orig.redirects + 1
       /\ Len(trail) = orig.redirects

C1_Witness ==
    /\ pc = "done"
    /\ result.ok
    /\ orig.redirects = 2
    /\ orig.method = "POST"
    /\ trail = <<FALSE, TRUE>>
    /\ attempts = 3
    /\ resp.status = 200

\* C2: with a budget of 0, when the first request is answered by a redirect
\* (any 3xx status, any Location, also one that does not resolve), connect
\* fails with TooManyRedirects after exactly one connection attempt, and has
\* not called itself.
C2_NoBudgetNoRedirect ==
    (/\ Ended
     /\ orig.redirects = 0
     /\ resp # NoResponse
     /\ Redirect(resp))
    => /\ result = [ok |-> FALSE, v |-> "TooManyRedirects", stream |-> 0]
       /\ attempts = 1
       /\ dns_lookups = 1
       /\ trail = <<>>

C2_Witness ==
    /\ pc = "failed"
    /\ orig.redirects = 0
    /\ resp.status = 308
    /\ resp.location.kind = "bad"
    /\ result.v = "TooManyRedirects"
    /\ attempts = 1

\* C3: once a hop answered with 301, 302 or 303 has been followed, the next
\* hop and every later one is a GET with the Empty payload, whatever the
\* method and payload of the call: it is what the hop holds, what its
\* request line says, and what is handed to send_payload on its stream.
C3_RedirectForcesGet ==
    \A i \in 1..Len(trail) :
        trail[i] =>
            /\ method = "GET"
            /\ payload = EmptyPayload
            /\ \A p \in Preludes : p.method = "GET"
            /\ \A k \in 1..Len(sends) :
                  sends[k].stream > i => sends[k].payload = EmptyPayload

C3_Witness ==
    /\ pc = "done"
    /\ trail = <<TRUE, FALSE>>
    /\ orig.method = "POST"
    /\ orig.payload = Sized(10)
    /\ \E p \in Preludes : p.method = "GET"
    /\ Len(sends) = 2

\* C4: a hop answered with 307, 308 or another 3xx that is not 301, 302 or
\* 303 starts the next hop with exactly its own method and payload (and
\* request and jar); the URL is the resolved Location and the budget is one
\* less.
C4_RedirectKeepsMethodAndPayload ==
    [][ (pc = "redirect" /\ pc' = "open" /\ resp.status \notin {301, 302, 303})
        => /\ method' = method
           /\ payload' = payload
           /\ request' = request
           /\ jar' = jar
           /\ redirects' = redirects - 1
           /\ url' = Join(url, resp.location).v
           /\ sends' = sends ]_vars

C4_Witness ==
    /\ pc = "read"
    /\ trail = <<FALSE>>
    /\ method = "POST"
    /\ orig.method = "POST"
    /\ payload = Reader(<<3, 7>>)
    /\ redirects = orig.redirects - 1
    /\ \E p \in Preludes : p.method = "POST"
    /\ sends = <<>>

\* how far the call is from its return: the hops the budget still allows,
\* and the steps left in the current hop
StepsLeft ==
    5 * redirects + CASE pc = "open"     -> 4
                      [] pc = "prelude"  -> 3
                      [] pc = "read"     -> 2
                      [] pc = "redirect" -> 1
                      [] OTHER           -> 0

\* C13: the hop that a redirect starts has a budget exactly one less than
\* the hop that followed it, and the budget never goes below 0; every step
\* brings the call nearer to its return (so no run goes on for ever, whatever
\* the server answers), a call that has not returned can always take a
\* step, and a call with budget N has made at most N+1 connection attempts.
C13_BudgetBoundsTheChain ==
    [][ /\ (pc = "redirect" /\ pc' = "open") => redirects' = redirects - 1
        /\ redirects' = orig.redirects - Len(trail')
        /\ redirects' >= 0
        /\ StepsLeft' < StepsLeft
        /\ (Ended \/ ENABLED Next)'
        /\ attempts' <= orig.redirects + 1 ]_vars

C13_Witness ==
    /\ pc = "failed"
    /\ result.v = "TooManyRedirects"
    /\ orig.redirects = 2
    /\ trail = <<TRUE, FALSE>>
    /\ redirects = 0
    /\ attempts = 3

\* C14: a hop whose answer has a 3xx status and no Location is not taken as
\* a redirect, whatever budget is left (0 too): its next step is the payload
\* on the hop's own stream and the return of Ok, or the I/O error of that
\* write; never TooManyRedirects or BadUrl, no further hop, no further
\* connection.
C14_NoLocationIsNoRedirect ==
    [][ (pc = "redirect" /\ resp.status \in 300..399 /\ resp.location.kind = "none")
        => /\ pc' \in {"done", "failed"}
           /\ pc' = "done"
              => /\ result' = [ok |-> TRUE, v |-> "Response", stream |-> stream_id]
                 /\ stream' = stream \o SendPayload(request, payload)
           /\ pc' = "failed"
              => /\ result'.v = "Io"
                 /\ payload # EmptyPayload
                 /\ SubSeq(stream', 1, Len(stream)) = stream
           /\ attempts' = attempts /\ dns_lookups' = dns_lookups
           /\ stream_id' = stream_id
           /\ trail' = trail /\ redirects' = redirects ]_vars

C14_Witness ==
    /\ pc = "done"
    /\ result.ok
    /\ orig.redirects = 0
    /\ resp.status = 302
    /\ resp.location = NoLocation
    /\ payload = Sized(10)
    /\ attempts = 1
    /\ Len(stream) > 1
    /\ stream[1].kind = "prelude"

\* C16: streams are numbered as they are opened. A stream is opened by the
\* first step of a hop and by no other step, so the hop that follows n
\* redirects works on stream n+1, a stream no earlier hop has had: its
\* prelude is written there once, before anything else, its call of
\* send_payload writes there, and the calls of send_payload of a chain are on
\* streams of different hops. The Ok that connect returns carries the stream
\* of the last hop.
C16_OneStreamPerHop ==
    [][ /\ stream_id' = IF pc = "open" /\ pc' = "prelude" THEN stream_id + 1
                        ELSE stream_id
        /\ (pc' \in {"prelude", "read", "redirect", "done"}
              => stream_id' = Len(trail') + 1)
        /\ (pc' = "open" => stream_id' = Len(trail') /\ stream' = <<>>)
        /\ (pc' \in {"read", "redirect", "done"}
              => /\ stream'[1].kind = "prelude"
                 /\ \A i \in 2..Len(stream') : stream'[i].kind # "prelude")
        /\ \A k \in 1..Len(sends') :
              /\ sends'[k].stream \in 1..stream_id'
              /\ \A j \in 1..(k - 1) : sends'[j].stream < sends'[k].stream
        /\ (sends' # sends
              => /\ sends'[Len(sends')].stream = stream_id
                 /\ SubSeq(sends', 1, Len(sends)) = sends)
        /\ (pc' = "done"
              => /\ result'.ok /\ result'.stream = stream_id'
                 /\ sends'[Len(sends')].stream = result'.stream) ]_vars

C16_Witness ==
    /\ pc = "done"
    /\ trail = <<TRUE, FALSE>>
    /\ stream_id = 3
    /\ result.stream = 3
    /\ Len(sends) = 2
    /\ sends[1].stream = 1
    /\ sends[2].stream = 3
    /\ stream[1].kind = "prelude"

\* C15 (as claimed): a failure ends the chain. Once connect has returned an
\* error, it is one of the six kinds, no step is left to take (no connection
\* attempt, no hop, no retry), and no call of send_payload has written
\* anything to a stream after its failure.
C15_ErrorsAreTerminal ==
    pc = "failed"
    => /\ ~result.ok
       /\ result.v \in {"UnknownScheme", "DnsFailed", "ConnectionFailed", "BadUrl",
                         "TooManyRedirects", "Io"}
       /\ ~ENABLED Next
       /\ attempts <= Len(trail) + 1
       /\ \A k \in 1..Len(sends) : sends[k].after = <<>>

\* the payload bytes among the items written
PayloadBytes(items) ==
    SumSeq([i \in 1..Len(items) |-> items[i].to - items[i].from])

\* C17 (as claimed): once a hop answered with 301, 302 or 303 has been
\* followed, no byte of a payload has been written to that hop's stream nor
\* to the stream of a later hop.
C17_RedirectToGetWritesNoPayload ==
    \A i \in 1..Len(trail) :
        trail[i] =>
            \A k \in 1..Len(sends) :
                sends[k].stream >= i
                => PayloadBytes(sends[k].written \o sends[k].after) = 0

\* the hops followed so far that were answered with 301, 302 or 303
GetRedirects(t) == {i \in 1..Len(t) : t[i]}

\* C20: the first call of send_payload in a chain is the one that is given
\* the caller's payload, and every later call is given the Empty payload and
\* writes no payload byte: the caller's payload goes to send_payload at most
\* once and to one stream at most. When connect returns Ok there has been
\* such a call, on the stream of the first hop answered with 301, 302 or
\* 303 if there is one and of the last hop otherwise. A hop that follows a
\* redirect with another status calls send_payload not at all: it leaves the
\* prelude alone on its stream, with no body byte and no chunk terminator.
C20_PayloadSentOnce ==
    [][ /\ \A k \in 1..Len(sends') :
              IF k = 1
              THEN sends'[k].payload = orig.payload
              ELSE /\ sends'[k].payload = EmptyPayload
                   /\ orig.payload # EmptyPayload => sends'[k].payload # orig.payload
                   /\ \A i \in 1..Len(sends'[k].written \o sends'[k].after) :
                         LET it == (sends'[k].written \o sends'[k].after)[i]
                         IN  it.to = it.from
        /\ (sends' = <<>> => payload' = orig.payload)
        /\ (pc' = "done"
              => /\ sends' # <<>>
                 /\ sends'[1].stream =
                       IF GetRedirects(trail') # {}
                       THEN CHOOSE i \in GetRedirects(trail') :
                               \A j \in GetRedirects(trail') : i <= j
                       ELSE Len(trail') + 1)
        /\ (pc = "redirect" /\ pc' = "open" /\ resp.status \notin {301, 302, 303})
              => /\ sends' = sends
                 /\ payload' = payload
                 /\ stream = <<Prelude(request, method, url, cookie_headers)>> ]_vars

C20_Witness ==
    /\ pc = "done"
    /\ trail = <<FALSE, TRUE>>
    /\ orig.payload = Sized(10)
    /\ orig.method = "POST"
    /\ Len(sends) = 2
    /\ sends[1].stream = 2
    /\ sends[1].payload = Sized(10)
    /\ sends[2].stream = 3
    /\ sends[2].payload = EmptyPayload

-----------------------------------------------------------------------------
(* Properties of connect and the jar (SpecJar) *)

C10_StoredCookiesHaveDomain ==
    jar.some => \A c \in jar.v \ orig.jar.v : c.domain.some

\* C11: a hop whose URL has a scheme other than http and https (in a build
\* that is no test build, "test" is one of those) does one thing only: it
\* returns UnknownScheme. It looks up no name, connects no socket, opens no
\* stream, writes and reads nothing, and leaves the jar as it is, so the
\* lookups and connection attempts of the chain are those of the hops before
\* it, one each; the same holds when the URL is a redirect's Location.
C11_UnknownSchemeBeforeAnyIo ==
    [][ (pc = "open" /\ url.scheme \notin {"http", "https"})
        => /\ pc' = "failed"
           /\ result' = [ok |-> FALSE, v |-> "UnknownScheme", stream |-> 0]
           /\ dns_lookups' = Len(trail) /\ dns_lookups' = dns_lookups
           /\ attempts' = Len(trail) /\ attempts' = attempts
           /\ stream_id' = stream_id /\ stream' = <<>>
           /\ resp' = NoResponse
           /\ sends' = sends
           /\ jar' = jar ]_vars

C11_Witness ==
    /\ pc = "failed"
    /\ result.v = "UnknownScheme"
    /\ url.scheme = "ftp"
    /\ trail = <<FALSE>>
    /\ dns_lookups = 1 /\ attempts = 1 /\ stream_id = 1
    /\ stream = <<>>
    /\ jar.v # orig.jar.v

\* the Set-Cookie values that have a name and "=" are in the jar, by name and
\* value, but for one that a later value of the same name has replaced
Stored(raws, cookies) ==
    \A i \in 1..Len(raws) :
        LET eq   == Find(Head(Split(raws[i], ";")), <<"=">>)
            kv   == Head(Split(raws[i], ";"))
            name == Trim(SubSeq(kv, 1, eq - 1))
        IN  (eq > 0 /\ name # <<>>)
            => \/ \E c \in cookies :
                     c.name = name /\ c.value = Trim(SubSeq(kv, eq + 1, Len(kv)))
               \/ \E j \in (i + 1)..Len(raws) :
                     StartsWith(TrimStart(raws[j]), name \o <<"=">>)

\* C12: on a hop with a jar, the step that reads the response puts every
\* parseable Set-Cookie value of it into the jar, and the step taken next
\* (following the redirect, returning the response, or failing with
\* TooManyRedirects, BadUrl or an I/O error of the payload) leaves the jar as
\* it is: the cookies are in the jar however the hop ends.
C12_CookiesStoredBeforeRedirectDecision ==
    [][ /\ (pc = "read" /\ jar.some)
           => (pc' = "redirect" /\ Stored(resp'.set_cookie, jar'.v))
        /\ (pc = "redirect" /\ jar.some)
           => /\ Stored(resp.set_cookie, jar.v)
              /\ jar' = jar
              /\ pc' \in {"open", "done", "failed"} ]_vars

C12_Witness ==
    /\ pc = "failed"
    /\ result.v = "BadUrl"
    /\ trail = <<FALSE>>
    /\ resp.status = 302
    /\ resp.set_cookie = <<RC_unparseable, RC_path>>
    /\ orig.jar.v = {}
    /\ {c.value : c \in jar.v} = {<<"w">>}

\* C18: the steps of a hop come in one order. The stream is opened with
\* nothing on it; the prelude is the first thing written, in one write, and
\* no response has been read then; the response is read from a stream that
\* holds the prelude and nothing else, and the same step stores its cookies;
\* send_payload is called only after that, on the stream that holds the
\* hop's prelude, and what it writes follows the prelude there.
C18_HopOrder ==
    [][ /\ (pc = "open" /\ pc' = "prelude")
           => (stream' = <<>> /\ resp' = NoResponse /\ sends' = sends)
        /\ (pc = "prelude" /\ pc' = "read")
           => /\ stream = <<>>
              /\ stream' = <<Prelude(request, method, url, cookie_headers)>>
              /\ resp' = NoResponse /\ jar' = jar /\ sends' = sends
        /\ (pc = "read")
           => /\ stream = <<Prelude(request, method, url, cookie_headers)>>
              /\ stream' = stream /\ sends' = sends
              /\ resp = NoResponse /\ resp' # NoResponse
              /\ pc' = "redirect"
              /\ Stored(resp'.set_cookie, jar'.v)
        /\ (sends' # sends)
           => /\ pc = "redirect"
              /\ resp # NoResponse
              /\ Stored(resp.set_cookie, jar.v)
              /\ stream = <<Prelude(request, method, url, cookie_headers)>>
              /\ sends'[Len(sends')].stream = stream_id
              /\ pc' \in {"done", "failed"}
                    => stream' = stream \o sends'[Len(sends')].written
                                        \o sends'[Len(sends')].after
        /\ (sends' = sends /\ pc # "prelude") => stream' \in {stream, <<>>} ]_vars

C18_Witness ==
    /\ pc = "done"
    /\ trail = <<FALSE>>
    /\ resp.set_cookie = <<RC_plain>>
    /\ \E c \in jar.v : c.name = <<"k">> /\ c.value = <<"v">>
    /\ Len(stream) = 3
    /\ stream[1].kind = "prelude"
    /\ stream[2] = Chunk(0, 10)
    /\ sends = <<[stream |-> 2, payload |-> payload,
                  written |-> <<Chunk(0, 10), Chunk(10, 10)>>, after |-> <<>>]>>

\* a jar entry is for a URL: the URL's host ends with its domain, its path
\* (if it has one) starts the URL's path, and it is secure only if the URL
\* is https
IsFor(c, u) ==
    /\ c.domain.some
    /\ EndsWith(Hostname(u), c.domain.v)
    /\ c.path.some => StartsWith(u.path, c.path.v)
    /\ c.secure => IsSecure(u)

\* C19: the hops of a chain work on one jar. Every entry the jar holds when
\* a hop starts that is for the hop's URL, those stored from the response of
\* the redirect just followed among them, is a Cookie header of the hop's
\* prelude; an entry that a hop's response adds to the jar is not among the
\* entries of that hop's own prelude, which was written before; and
\* following a redirect hands the jar on as it is.
C19_JarSharedAlongChain ==
    [][ /\ (pc = "prelude" /\ pc' = "read")
           => \A c \in jar.v :
                 IsFor(c, url)
                 => /\ c \in stream'[1].entries
                    /\ [name |-> "Cookie", value |-> c.name \o <<"=">> \o c.value]
                          \in stream'[1].cookies
        /\ (pc = "read" /\ pc' = "redirect")
           => \A c \in jar'.v \ jar.v :
                 \A p \in Preludes : c \notin p.entries
        /\ (pc = "redirect" /\ pc' = "open") => jar' = jar ]_vars

C19_Witness ==
    /\ pc = "read"
    /\ trail = <<FALSE>>
    /\ orig.jar.v = {}
    /\ url = Url("http", H_ab, P_p)
    /\ \E p \in Preludes :
          /\ p.cookies = {[name |-> "Cookie", value |-> <<"k","=","w">>]}
          /\ \E c \in p.entries : c.path = Some(P_p) /\ IsFor(c, url)

====
